---- MODULE Spec2Model ----
(***************************************************************************)
(* Smart Warehouse Reordering System: the REST backend of server.js, its   *)
(* product collection, the reorder analysis and the demand-spike           *)
(* simulation.                                                             *)
(*                                                                         *)
(* JavaScript values are modelled as tuples so that values of different    *)
(* JavaScript types can be compared:                                       *)
(*   undefined          <<>>                                               *)
(*   a string s         <<s>>                                              *)
(*   a number n/d       <<n, d>>, in lowest terms, d > 0                   *)
(*   Infinity, -Infinity, NaN   <<1, 0>>, <<-1, 0>>, <<0, 0>>              *)
(*   null               <<"null", 0, 0>>                                   *)
(*   an object          a tuple of length 4                                *)
(* Finite numbers are exact rationals: the model keeps the arithmetic of   *)
(* the handlers and leaves out the rounding error of IEEE-754 doubles.     *)
(***************************************************************************)
EXTENDS Integers, Sequences, FiniteSets, TLC

(***************************************************************************)
(* The server: the product collection and the request being served         *)
(***************************************************************************)
VARIABLES
    store,      \* the documents of the collection, in insertion order
    nextId,     \* the _id the next inserted document gets
    request,    \* the request being answered
    response,   \* the status and the body sent for it
    locals,     \* the local constants the spike handler computed for it
    analysed,   \* history: the analysis results of the documents analysed so far
                \* and not changed since
    reanalysed, \* history: the analysis just served analysed a document again,
                \* after another request had been served in between
    now,        \* the value Date.now() returns
    seedRuns,   \* the seed requests received so far
    seeding,    \* the seed requests that have cleared the collection and have
                \* not inserted the samples yet
    updatedAt,  \* history: <<_id, time>> of the last update served for each
                \* document of the collection that has been updated
    loading,      \* the dashboard's loading state
    notification, \* the dashboard's notification state: Null or <<message, type>>
    timeouts,     \* the pending setTimeout callbacks of showNotification, oldest
                  \* first, each tagged with the number of the call that set it
    inFlight,     \* the requests of the dashboard that have not settled yet,
                  \* counted per function
    clicks,       \* the user actions of the dashboard so far
    shown,        \* history: the calls of showNotification so far
    displayed     \* history: the number of the call that set the notification
                  \* on display, 0 when there is none

server == <<store, nextId, request, response, locals, analysed, reanalysed,
            now, seedRuns, seeding, updatedAt>>

client == <<loading, notification, timeouts, inFlight, clicks, shown, displayed>>

vars == <<store, nextId, request, response, locals, analysed, reanalysed,
          now, seedRuns, seeding, updatedAt,
          loading, notification, timeouts, inFlight, clicks, shown, displayed>>

(***************************************************************************)
(* JavaScript numbers                                                      *)
(***************************************************************************)
Abs(n) == IF n < 0 THEN -n ELSE n

Sign(n) == IF n < 0 THEN -1 ELSE IF n > 0 THEN 1 ELSE 0

RECURSIVE GCD(_, _)
GCD(a, b) == IF b = 0 THEN a ELSE GCD(b, a % b)

\* The number n/d in lowest terms; a zero denominator gives the non-finite values.
Num(n, d) ==
    IF d = 0 THEN <<Sign(n), 0>>
    ELSE LET g == GCD(Abs(n), Abs(d))
         IN  <<(Sign(d) * n) \div g, Abs(d) \div g>>

Whole(n) == <<n, 1>>

Undefined == <<>>
Null == <<"null", 0, 0>>
Infinity == <<1, 0>>
NegInfinity == <<-1, 0>>
NaN == <<0, 0>>

IsNumber(v) == Len(v) = 2
IsString(v) == Len(v) = 1
IsObject(v) == Len(v) = 4
IsFinite(x) == x[2] # 0

\* !!v of JavaScript: undefined, "", 0 and NaN are falsy.
Truthy(v) ==
    IF v = Undefined THEN FALSE
    ELSE IF IsString(v) THEN v[1] # ""
    ELSE IF IsObject(v) THEN TRUE
    ELSE v[1] # 0

Add(a, b) ==
    IF IsFinite(a) /\ IsFinite(b) THEN Num(a[1] * b[2] + b[1] * a[2], a[2] * b[2])
    ELSE IF a = NaN \/ b = NaN THEN NaN
    ELSE IF ~IsFinite(a) /\ ~IsFinite(b) THEN (IF a = b THEN a ELSE NaN)
    ELSE IF IsFinite(a) THEN b ELSE a

Neg(a) == <<-a[1], a[2]>>

Sub(a, b) == Add(a, Neg(b))

\* Infinity * 0 is NaN: the product of the numerators over a zero denominator.
Mul(a, b) == Num(a[1] * b[1], a[2] * b[2])

\* x / 0 is Infinity, -Infinity or (for 0 / 0) NaN.
Div(a, b) ==
    IF b = NaN THEN NaN
    ELSE IF b[1] = 0 THEN Mul(a, Infinity)
    ELSE Mul(a, <<Sign(b[1]) * b[2], Abs(b[1])>>)

\* a <= b of JavaScript: false as soon as one side is NaN.
Le(a, b) ==
    IF a = NaN \/ b = NaN THEN FALSE
    ELSE IF IsFinite(a) /\ IsFinite(b) THEN a[1] * b[2] <= b[1] * a[2]
    ELSE a = b \/ a = NegInfinity \/ b = Infinity

Lt(a, b) == Le(a, b) /\ a # b

\* Math.max of two numbers.
Max(a, b) ==
    IF a = NaN \/ b = NaN THEN NaN
    ELSE IF Le(a, b) THEN b ELSE a

\* Math.floor.
Floor(x) == IF IsFinite(x) THEN Whole(x[1] \div x[2]) ELSE x

\* Math.round: the nearest integer, halves towards +Infinity.
Round(x) == IF IsFinite(x) THEN Floor(Add(x, Num(1, 2))) ELSE x

\* What JSON.stringify, and so res.json, writes for a value: a number that is not
\* finite is written as null.
toJSON(v) == IF IsNumber(v) /\ ~IsFinite(v) THEN Null ELSE v

\* Math.round(x * 100) / 100.
Round2(x) == Div(Round(Mul(x, Whole(100))), Whole(100))

(***************************************************************************)
(* Helper functions for calculations (server.js, lines 63-79)              *)
(***************************************************************************)
bufferDays == 5
targetDays == 60
totalDays == 30

\* Mutant: the guard against a sales rate of 0 is left out.
calculateDaysOfStockRemaining_noZeroGuard(currentStock, averageDailySales) ==
    Floor(Div(currentStock, averageDailySales))

\* Mutant: the quotient is rounded to the nearest integer.
calculateDaysOfStockRemaining_rounded(currentStock, averageDailySales) ==
    IF averageDailySales = Whole(0) THEN Infinity
    ELSE Round(Div(currentStock, averageDailySales))

calculateDaysOfStockRemaining(currentStock, averageDailySales) ==
    IF averageDailySales = Whole(0) THEN Infinity
    ELSE Floor(Div(currentStock, averageDailySales))

\* Mutant: the lead time is taken off the buffer.
calculateSafetyStockThreshold_leadTimeTakenOff(supplierLeadTime) ==
    Sub(Whole(bufferDays), supplierLeadTime)

\* Mutant: the threshold is the lead time, without the buffer.
calculateSafetyStockThreshold_noBuffer(supplierLeadTime) ==
    supplierLeadTime

calculateSafetyStockThreshold(supplierLeadTime) ==
    Add(supplierLeadTime, Whole(bufferDays))

\* Mutant: the target is the stock of 30 days.
calculateOptimalReorderQuantity_thirtyDays(averageDailySales, days, currentStock) ==
    Max(Whole(0), Sub(Mul(averageDailySales, Whole(totalDays)), currentStock))

\* Mutant: the stock on hand is not taken off the target stock.
calculateOptimalReorderQuantity_ignoresStock(averageDailySales, days, currentStock) ==
    Max(Whole(0), Mul(averageDailySales, Whole(days)))

calculateOptimalReorderQuantity(averageDailySales, days, currentStock) ==
    LET targetStock == Mul(averageDailySales, Whole(days))
    IN  Max(Whole(0), Sub(targetStock, currentStock))

\* Mutant: the flag is shared with the spike handler, which leaves its own
\* projection in it.
needsReorder_sharedFlag(daysRemaining, safetyThreshold) ==
    IF response.kind = "simulation" THEN locals.needsReorderFlag
    ELSE Le(daysRemaining, safetyThreshold)

\* Mutant: a strict comparison.
needsReorder_strict(daysRemaining, safetyThreshold) ==
    Lt(daysRemaining, safetyThreshold)

needsReorder(daysRemaining, safetyThreshold) ==
    Le(daysRemaining, safetyThreshold)

\* Mutant: the minimum order is applied whether or not a reorder is triggered.
optimalQuantityFor_alwaysFloor(needsReorderFlag, averageDailySales, currentStock, minimumReorderQuantity) ==
    Max(calculateOptimalReorderQuantity(averageDailySales, targetDays, currentStock),
        minimumReorderQuantity)

\* Mutant: the minimum order is left out.
optimalQuantityFor_noFloor(needsReorderFlag, averageDailySales, currentStock, minimumReorderQuantity) ==
    IF needsReorderFlag
    THEN calculateOptimalReorderQuantity(averageDailySales, targetDays, currentStock)
    ELSE Whole(0)

\* The quantity both handlers order: the 60-day quantity floored by the minimum
\* order when a reorder is triggered, 0 otherwise.
optimalQuantityFor(needsReorderFlag, averageDailySales, currentStock, minimumReorderQuantity) ==
    IF needsReorderFlag
    THEN Max(calculateOptimalReorderQuantity(averageDailySales, targetDays, currentStock),
             minimumReorderQuantity)
    ELSE Whole(0)

\* Mutant: a half cent goes down.
estimatedCostOf_halvesDown(optimalQuantity, costPerUnit) ==
    Div(Neg(Floor(Sub(Num(1, 2), Mul(Mul(optimalQuantity, costPerUnit), Whole(100))))),
        Whole(100))

\* Math.round(optimalQuantity * costPerUnit * 100) / 100
estimatedCostOf(optimalQuantity, costPerUnit) ==
    Div(Round(Mul(Mul(optimalQuantity, costPerUnit), Whole(100))), Whole(100))

\* daysRemaining === Infinity ? 'Unlimited' : daysRemaining
unlimitedTag(daysRemaining) ==
    IF daysRemaining = Infinity THEN <<"Unlimited">> ELSE daysRemaining

(***************************************************************************)
(* GET /api/reorder-analysis: the per-product map and the ranking          *)
(***************************************************************************)
analyzeProduct(product) ==
    LET daysRemaining == calculateDaysOfStockRemaining(product.currentStock,
                                                       product.averageDailySales)
        safetyThreshold == calculateSafetyStockThreshold(product.supplierLeadTime)
        needsReorderFlag == needsReorder(daysRemaining, safetyThreshold)
        optimalQuantity == optimalQuantityFor(needsReorderFlag, product.averageDailySales,
                                              product.currentStock,
                                              product.minimumReorderQuantity)
        estimatedCost == estimatedCostOf(optimalQuantity, product.costPerUnit)
    IN  [product |-> product,
         daysRemaining |-> unlimitedTag(daysRemaining),
         safetyThreshold |-> safetyThreshold,
         needsReorder |-> needsReorderFlag,
         optimalReorderQuantity |-> optimalQuantity,
         estimatedCost |-> estimatedCost]

criticalityOrder == [high |-> 3, medium |-> 2, low |-> 1]

\* Mutant: the criticalities are subtracted the other way round.
compareAnalysis_ascending(a, b) ==
    IF a.needsReorder /\ ~b.needsReorder THEN -1
    ELSE IF ~a.needsReorder /\ b.needsReorder THEN 1
    ELSE criticalityOrder[a.product.criticality] - criticalityOrder[b.product.criticality]

\* The comparator handed to Array.prototype.sort.
compareAnalysis(a, b) ==
    IF a.needsReorder /\ ~b.needsReorder THEN -1
    ELSE IF ~a.needsReorder /\ b.needsReorder THEN 1
    ELSE criticalityOrder[b.product.criticality] - criticalityOrder[a.product.criticality]

\* Array.prototype.sort is stable: an element goes after the elements it does not
\* precede.
RECURSIVE insertSorted(_, _)
insertSorted(x, sorted) ==
    IF sorted = <<>> THEN <<x>>
    ELSE IF compareAnalysis(Head(sorted), x) <= 0
         THEN <<Head(sorted)>> \o insertSorted(x, Tail(sorted))
         ELSE <<x>> \o sorted

RECURSIVE sortAnalysis(_)
sortAnalysis(analysis) ==
    IF analysis = <<>> THEN <<>>
    ELSE insertSorted(analysis[Len(analysis)],
                      sortAnalysis(SubSeq(analysis, 1, Len(analysis) - 1)))

\* Mutant: only the results that need a reorder are returned.
reorderAnalysis_reordersOnly(products) ==
    SelectSeq(sortAnalysis([i \in 1..Len(products) |-> analyzeProduct(products[i])]),
              LAMBDA r : r.needsReorder)

reorderAnalysis(products) ==
    sortAnalysis([i \in 1..Len(products) |-> analyzeProduct(products[i])])

(***************************************************************************)
(* POST /api/simulate-demand-spike                                         *)
(***************************************************************************)
\* Product.findOne({ productId }) finds a document.
productExists(products, productId) ==
    \E i \in 1..Len(products) : <<products[i].productId>> = productId

\* The document it finds: the first match, in the order of the collection.
findOne(products, productId) ==
    products[CHOOSE i \in 1..Len(products) :
                /\ <<products[i].productId>> = productId
                /\ \A j \in 1..(i - 1) : <<products[j].productId>> # productId]

\* Product.findOne({ productId }) reads an object as query operators on the
\* String path and throws for one that names no operator; the catch block
\* answers what it throws with 500.
findOneThrows(productId) == IsObject(productId)

missingFields(req) ==
    ~Truthy(req.productId) \/ ~Truthy(req.spikeMultiplier) \/ ~Truthy(req.spikeDuration)

\* Mutant: only the multiplier is checked.
notPositive_multiplierOnly(req) ==
    Le(req.spikeMultiplier, Whole(0))

notPositive(req) ==
    Le(req.spikeMultiplier, Whole(0)) \/ Le(req.spikeDuration, Whole(0))

\* Mutant: the consumption of the spike is added to the stock.
stockAfterSpikeOf_restocked(currentStock, totalSpikeConsumption) ==
    Add(currentStock, totalSpikeConsumption)

\* Mutant: the stock after the spike is not clamped at 0.
stockAfterSpikeOf_noClamp(currentStock, totalSpikeConsumption) ==
    Sub(currentStock, totalSpikeConsumption)

\* The stock left after the spike, line 243.
stockAfterSpikeOf(currentStock, totalSpikeConsumption) ==
    Max(Whole(0), Sub(currentStock, totalSpikeConsumption))

\* Mutant: the two rates are weighted with each other's period.
newAverageDailySalesOf_swappedWeights(normalDailySales, spikedDailySales, spikeDuration) ==
    LET normalPeriod == Max(Whole(0), Sub(Whole(totalDays), spikeDuration))
    IN  IF Le(Whole(totalDays), spikeDuration)
        THEN spikedDailySales
        ELSE Div(Add(Mul(normalDailySales, spikeDuration),
                     Mul(spikedDailySales, normalPeriod)),
                 Whole(totalDays))

\* Mutant: the blend is the plain mean of the two rates.
newAverageDailySalesOf_plainMean(normalDailySales, spikedDailySales, spikeDuration) ==
    IF Le(Whole(totalDays), spikeDuration)
    THEN spikedDailySales
    ELSE Div(Add(normalDailySales, spikedDailySales), Whole(2))

\* Mutant: the blend is taken whatever the duration.
newAverageDailySalesOf_alwaysBlend(normalDailySales, spikedDailySales, spikeDuration) ==
    LET normalPeriod == Max(Whole(0), Sub(Whole(totalDays), spikeDuration))
    IN  Div(Add(Mul(normalDailySales, normalPeriod),
                Mul(spikedDailySales, spikeDuration)),
            Whole(totalDays))

\* The weighted average over 30 days, lines 246-250.
newAverageDailySalesOf(normalDailySales, spikedDailySales, spikeDuration) ==
    LET normalPeriod == Max(Whole(0), Sub(Whole(totalDays), spikeDuration))
    IN  IF Le(Whole(totalDays), spikeDuration)
        THEN spikedDailySales
        ELSE Div(Add(Mul(normalDailySales, normalPeriod),
                     Mul(spikedDailySales, spikeDuration)),
                 Whole(totalDays))

\* The local constants of the handler, lines 237-261.
spikeLocals(product, spikeMultiplier, spikeDuration) ==
    LET normalDailySales == product.averageDailySales
        spikedDailySales == Mul(normalDailySales, spikeMultiplier)
        totalSpikeConsumption == Mul(spikedDailySales, spikeDuration)
        stockAfterSpike == stockAfterSpikeOf(product.currentStock, totalSpikeConsumption)
        newAverageDailySales ==
            newAverageDailySalesOf(normalDailySales, spikedDailySales, spikeDuration)
        daysRemaining == calculateDaysOfStockRemaining(stockAfterSpike, newAverageDailySales)
        safetyThreshold == calculateSafetyStockThreshold(product.supplierLeadTime)
        needsReorderFlag == needsReorder(daysRemaining, safetyThreshold)
        optimalQuantity == optimalQuantityFor(needsReorderFlag, newAverageDailySales,
                                              stockAfterSpike,
                                              product.minimumReorderQuantity)
    IN  [product |-> product,
         normalDailySales |-> normalDailySales,
         spikedDailySales |-> spikedDailySales,
         totalSpikeConsumption |-> totalSpikeConsumption,
         stockAfterSpike |-> stockAfterSpike,
         newAverageDailySales |-> newAverageDailySales,
         daysRemaining |-> daysRemaining,
         safetyThreshold |-> safetyThreshold,
         needsReorderFlag |-> needsReorderFlag,
         optimalQuantity |-> optimalQuantity]

\* (totalSpikeConsumption / product.currentStock) * 100, rounded to 2 places
stockDepletionOf(totalSpikeConsumption, currentStock) ==
    Round2(Mul(Div(totalSpikeConsumption, currentStock), Whole(100)))

\* The object handed to res.json, lines 263-284.
simulationOf(l, spikeMultiplier, spikeDuration) ==
    [productName |-> l.product.name,
     original |->
        [currentStock |-> l.product.currentStock,
         averageDailySales |-> Round2(l.normalDailySales),
         daysRemaining |-> calculateDaysOfStockRemaining(l.product.currentStock,
                                                         l.normalDailySales)],
     afterSpike |->
        [stockAfterSpike |-> Round2(l.stockAfterSpike),
         newAverageDailySales |-> Round2(l.newAverageDailySales),
         daysRemaining |-> unlimitedTag(l.daysRemaining),
         needsReorder |-> l.needsReorderFlag,
         optimalReorderQuantity |-> l.optimalQuantity,
         estimatedCost |-> estimatedCostOf(l.optimalQuantity, l.product.costPerUnit)],
     spikeDetails |->
        [spikeMultiplier |-> spikeMultiplier,
         spikeDuration |-> spikeDuration,
         totalConsumptionDuringSpike |-> Round2(l.totalSpikeConsumption),
         stockDepletion |-> stockDepletionOf(l.totalSpikeConsumption,
                                             l.product.currentStock)]]

NoLocals == [product |-> Undefined]

\* The handler: the response and the locals it computed on the way.
simulateDemandSpike(products, req) ==
    IF missingFields(req)
    THEN [status |-> 400, kind |-> "invalid", body |-> <<"Missing required fields">>,
          locals |-> NoLocals]
    ELSE IF notPositive(req)
    THEN [status |-> 400, kind |-> "invalid", body |-> <<"must be positive numbers">>,
          locals |-> NoLocals]
    ELSE IF findOneThrows(req.productId)
    THEN [status |-> 500, kind |-> "serverError", body |-> <<"Can't use a">>,
          locals |-> NoLocals]
    ELSE IF ~productExists(products, req.productId)
    THEN [status |-> 404, kind |-> "notFound", body |-> <<"Product not found">>,
          locals |-> NoLocals]
    ELSE LET product == findOne(products, req.productId)
             l == spikeLocals(product, req.spikeMultiplier, req.spikeDuration)
         IN  [status |-> 200, kind |-> "simulation",
              body |-> simulationOf(l, req.spikeMultiplier, req.spikeDuration),
              locals |-> l]

(***************************************************************************)
(* The requests of the CRUD behaviours                                     *)
(***************************************************************************)
\* How many documents are ever inserted.
MaxCreates == 2

ProductIds == {"PROD-001", "PROD-002"}
Criticalities == {"high", "medium", "low"}
Ids == 1..MaxCreates

\* The :id of a route: the _id of a document that is or was or will be in the
\* collection, or a string that is no ObjectId.
RouteIds == Ids \cup {0}

\* The request bodies of the CRUD behaviours.
Bodies ==
    [productId : ProductIds,
     name : {"Widget"},
     currentStock : {Whole(8), Whole(100)},
     averageDailySales : {Whole(2)},
     supplierLeadTime : {Whole(9)},
     minimumReorderQuantity : {Whole(50)},
     costPerUnit : {Whole(2499)},
     criticality : {"high", "low"}]

\* An update sets one field.
Patches ==
    [field : {"productId"}, value : ProductIds]
        \cup [field : {"currentStock"}, value : {Whole(8), Whole(100)}]
        \cup [field : {"criticality"}, value : {"high", "low"}]

SpikeRequests ==
    [productId : {Undefined, <<"PROD-001">>, <<"PROD-009">>},
     spikeMultiplier : {Whole(-1), Whole(3)},
     spikeDuration : {Whole(10)}]

\* The dashboard before it is mounted: the initial values of its states.
unmounted ==
    /\ loading = FALSE
    /\ notification = Null
    /\ timeouts = <<>>
    /\ inFlight = [fetchProducts |-> 0, fetchReorderAnalysis |-> 0, seedDatabase |-> 0]
    /\ clicks = 0
    /\ shown = 0
    /\ displayed = 0

Init ==
    /\ store = <<>>
    /\ nextId = 1
    /\ request = [op |-> "none"]
    /\ response = [status |-> 0, kind |-> "none", body |-> <<>>]
    /\ locals = NoLocals
    /\ analysed = {}
    /\ reanalysed = FALSE
    /\ now = 0
    /\ seedRuns = 0
    /\ seeding = 0
    /\ updatedAt = {}
    /\ unmounted

\* History: the document id has changed or is gone.
forget(results, id) == {r \in results : r.product._id # id}

\* Mutant: the collection has no unique index on productId.
productIdTaken_noIndex(products, productId) ==
    FALSE

\* The unique index on productId: a document of the collection has it.
productIdTaken(products, productId) ==
    \E i \in 1..Len(products) : products[i].productId = productId

indexOfId(products, id) ==
    CHOOSE i \in 1..Len(products) : products[i]._id = id

hasId(products, id) ==
    \E i \in 1..Len(products) : products[i]._id = id

\* The cast of req.params.id to an ObjectId: the _ids are the positive numbers,
\* anything else, as the 0 of RouteIds, is not one and makes the query throw.
isValidObjectId(id) == id >= 1

removeAt(products, i) ==
    SubSeq(products, 1, i - 1) \o SubSeq(products, i + 1, Len(products))

\* The paths of productSchema that are required.
requiredPaths ==
    {"productId", "name", "currentStock", "averageDailySales", "supplierLeadTime",
     "minimumReorderQuantity", "costPerUnit", "criticality"}

\* The validation of a new document by productSchema: every required path is
\* there and criticality is one of the enum; the schema puts no range on a number.
validationFails(body) ==
    \/ \E f \in requiredPaths : f \notin DOMAIN body
    \/ body.criticality \notin Criticalities

\* The validation of an update (runValidators): only the paths the update sets.
updateValidationFails(patch) ==
    patch.field = "criticality" /\ patch.value \notin Criticalities

\* new Product(body): the fields of the body, an _id, and lastUpdated by default
\* the time of construction.
newProduct(body, id, time) ==
    [f \in {"_id", "lastUpdated"} \cup DOMAIN body |->
        IF f = "_id" THEN id
        ELSE IF f \in DOMAIN body THEN body[f]
        ELSE time]

\* Mutant: the update keeps the lastUpdated of the body.
updateOf_bodyWins(doc, patch, time) ==
    [[doc EXCEPT !.lastUpdated = time] EXCEPT ![patch.field] = patch.value]

\* { ...req.body, lastUpdated: Date.now() } applied to the document.
updateOf(doc, patch, time) ==
    [[doc EXCEPT ![patch.field] = patch.value] EXCEPT !.lastUpdated = time]

\* POST /api/products: validate and save the document; the unique index on
\* productId rejects a second document with the same productId.
CreateProduct(body) ==
    /\ nextId <= MaxCreates
    /\ request' = [op |-> "create", body |-> body]
    /\ locals' = NoLocals
    /\ UNCHANGED analysed
    /\ reanalysed' = FALSE
    /\ UNCHANGED client
    /\ UNCHANGED <<now, seedRuns, seeding, updatedAt>>
    /\ IF validationFails(body)
       THEN /\ response' = [status |-> 400, kind |-> "validation",
                            body |-> <<"Product validation failed">>]
            /\ UNCHANGED <<store, nextId>>
       ELSE IF productIdTaken(store, body.productId)
       THEN /\ response' = [status |-> 400, kind |-> "duplicateKey", body |-> <<"E11000">>]
            /\ UNCHANGED <<store, nextId>>
       ELSE LET doc == newProduct(body, nextId, now)
            IN  /\ store' = Append(store, doc)
                /\ nextId' = nextId + 1
                /\ response' = [status |-> 201, kind |-> "product", body |-> doc]

\* PUT /api/products/:id: findByIdAndUpdate with the fields of the body and
\* lastUpdated; an error it throws is answered with 400.
UpdateProduct(id, patch) ==
    /\ request' = [op |-> "update", id |-> id, body |-> patch]
    /\ locals' = NoLocals
    /\ reanalysed' = FALSE
    /\ UNCHANGED client
    /\ UNCHANGED <<nextId, now, seedRuns, seeding>>
    /\ IF ~isValidObjectId(id)
       THEN /\ response' = [status |-> 400, kind |-> "castError",
                            body |-> <<"Cast to ObjectId failed">>]
            /\ UNCHANGED analysed
            /\ UNCHANGED store
       ELSE IF updateValidationFails(patch)
       THEN /\ response' = [status |-> 400, kind |-> "validation",
                            body |-> <<"Validation failed">>]
            /\ UNCHANGED analysed
            /\ UNCHANGED store
       ELSE IF ~hasId(store, id)
       THEN /\ response' = [status |-> 404, kind |-> "notFound",
                            body |-> <<"Product not found">>]
            /\ UNCHANGED analysed
            /\ UNCHANGED store
       ELSE LET i == indexOfId(store, id)
                updated == updateOf(store[i], patch, now)
            IN  IF /\ patch.field = "productId"
                   /\ productIdTaken(removeAt(store, i), patch.value)
                THEN /\ response' = [status |-> 400, kind |-> "duplicateKey",
                                     body |-> <<"E11000">>]
                     /\ UNCHANGED analysed
                     /\ UNCHANGED store
                ELSE /\ store' = [store EXCEPT ![i] = updated]
                     /\ response' = [status |-> 200, kind |-> "product", body |-> updated]
                     /\ analysed' = IF updated = store[i] THEN analysed
                                    ELSE forget(analysed, id)
    /\ updatedAt' = IF response'.kind = "product"
                    THEN {e \in updatedAt : e[1] # id} \cup {<<id, now>>}
                    ELSE updatedAt

\* DELETE /api/products/:id: findByIdAndDelete; an error it throws is answered
\* with 500.
DeleteProduct(id) ==
    /\ request' = [op |-> "delete", id |-> id]
    /\ locals' = NoLocals
    /\ reanalysed' = FALSE
    /\ UNCHANGED client
    /\ UNCHANGED <<nextId, now, seedRuns, seeding>>
    /\ IF ~isValidObjectId(id)
       THEN /\ response' = [status |-> 500, kind |-> "castError",
                            body |-> <<"Cast to ObjectId failed">>]
            /\ UNCHANGED analysed
            /\ UNCHANGED store
       ELSE IF ~hasId(store, id)
       THEN /\ response' = [status |-> 404, kind |-> "notFound",
                            body |-> <<"Product not found">>]
            /\ UNCHANGED analysed
            /\ UNCHANGED store
       ELSE /\ store' = removeAt(store, indexOfId(store, id))
            /\ analysed' = forget(analysed, id)
            /\ response' = [status |-> 200, kind |-> "deleted",
                            body |-> <<"Product deleted successfully">>]
    /\ updatedAt' = {e \in updatedAt : e[1] # id}

\* GET /api/reorder-analysis
ReorderAnalysis ==
    /\ request' = [op |-> "analysis"]
    /\ response' = [status |-> 200, kind |-> "analysis", body |-> reorderAnalysis(store)]
    /\ locals' = NoLocals
    /\ analysed' = {response'.body[k] : k \in 1..Len(response'.body)}
    /\ reanalysed' = /\ request.op # "analysis"
                      /\ \E r \in analysed : \E k \in 1..Len(store) : store[k] = r.product
    /\ UNCHANGED client
    /\ UNCHANGED <<store, nextId, now, seedRuns, seeding, updatedAt>>

\* Mutant: the handler saves the projected stock to the product.
SimulateDemandSpike_savesProjection(req) ==
    LET r == simulateDemandSpike(store, req)
    IN  /\ request' = [op |-> "simulate", body |-> req]
        /\ response' = [status |-> r.status, kind |-> r.kind, body |-> r.body]
        /\ locals' = r.locals
        /\ reanalysed' = FALSE
        /\ store' = IF r.kind = "simulation"
                    THEN [k \in 1..Len(store) |->
                            IF store[k] = r.locals.product
                            THEN [store[k] EXCEPT !.currentStock = r.locals.stockAfterSpike]
                            ELSE store[k]]
                    ELSE store
        /\ UNCHANGED client
        /\ UNCHANGED <<nextId, analysed, now, seedRuns, seeding, updatedAt>>

\* POST /api/simulate-demand-spike
SimulateDemandSpike(req) ==
    LET r == simulateDemandSpike(store, req)
    IN  /\ request' = [op |-> "simulate", body |-> req]
        /\ response' = [status |-> r.status, kind |-> r.kind, body |-> r.body]
        /\ locals' = r.locals
        /\ reanalysed' = FALSE
        /\ UNCHANGED client
        /\ UNCHANGED <<store, nextId, analysed, now, seedRuns, seeding, updatedAt>>

Next ==
    \/ \E body \in Bodies : CreateProduct(body)
    \/ \E id \in RouteIds, patch \in Patches : UpdateProduct(id, patch)
    \/ \E id \in RouteIds : DeleteProduct(id)
    \/ ReorderAnalysis
    \/ \E req \in SpikeRequests : SimulateDemandSpike(req)

Spec == Init /\ [][Next]_vars

(***************************************************************************)
(* POST /api/seed-data: the sample products                                *)
(***************************************************************************)
\* One element of sampleProducts; averageDailySales is given in tenths.
sample(productId, name, currentStock, tenthsOfDailySales, supplierLeadTime, minimumReorderQuantity, costPerUnit, criticality) ==
    [productId |-> productId,
     name |-> name,
     currentStock |-> Whole(currentStock),
     averageDailySales |-> Num(tenthsOfDailySales, 10),
     supplierLeadTime |-> Whole(supplierLeadTime),
     minimumReorderQuantity |-> Whole(minimumReorderQuantity),
     costPerUnit |-> Whole(costPerUnit),
     criticality |-> criticality]

sampleProducts ==
    << sample("PROD-001", "Wireless Bluetooth Headphones", 45, 32, 7, 50, 2499, "high"),
       sample("PROD-002", "USB-C Cable 6ft", 120, 85, 3, 100, 1049, "medium"),
       sample("PROD-003", "Smartphone Case - Clear", 15, 21, 5, 25, 749, "high"),
       sample("PROD-004", "Portable Power Bank 10000mAh", 80, 18, 14, 30, 2099, "medium"),
       sample("PROD-005", "Laptop Screen Protector", 25, 8, 10, 20, 1349, "low"),
       sample("PROD-006", "Wireless Mouse", 35, 25, 8, 40, 1699, "medium"),
       sample("PROD-007", "Gaming Keyboard - RGB", 22, 14, 12, 15, 6799, "high"),
       sample("PROD-008", "Webcam 1080p HD", 65, 28, 6, 35, 3899, "medium"),
       sample("PROD-009", "Bluetooth Speaker Portable", 8, 41, 9, 20, 2949, "high"),
       sample("PROD-010", "Phone Stand Adjustable", 140, 62, 4, 75, 849, "low"),
       sample("PROD-011", "Wireless Charging Pad", 55, 37, 11, 45, 1949, "medium"),
       sample("PROD-012", "HDMI Cable 10ft", 95, 23, 5, 60, 1449, "low"),
       sample("PROD-013", "Tablet Stylus Pen", 18, 19, 15, 25, 2449, "high"),
       sample("PROD-014", "Car Phone Mount", 72, 31, 7, 50, 1299, "medium"),
       sample("PROD-015", "Lightning Cable 3ft", 160, 124, 2, 120, 749, "medium"),
       sample("PROD-016", "Laptop Cooling Pad", 31, 12, 18, 20, 2799, "low"),
       sample("PROD-017", "Smart Watch Band - Silicone", 12, 58, 6, 30, 999, "high"),
       sample("PROD-018", "USB Hub 4-Port", 44, 26, 8, 35, 1599, "medium"),
       sample("PROD-019", "Noise Cancelling Earbuds", 28, 43, 13, 40, 7649, "high"),
       sample("PROD-020", "Memory Card 64GB", 86, 34, 9, 50, 1699, "medium"),
       sample("PROD-021", "Desk Lamp LED", 19, 11, 21, 15, 3649, "low"),
       sample("PROD-022", "Cable Organizer Set", 103, 47, 4, 80, 679, "low"),
       sample("PROD-023", "Portable Hard Drive 1TB", 37, 22, 16, 25, 5599, "medium"),
       sample("PROD-024", "Monitor Stand Adjustable", 14, 9, 20, 12, 3299, "high"),
       sample("PROD-025", "Bluetooth Adapter USB", 67, 16, 7, 40, 1199, "low"),
       sample("PROD-026", "Gaming Mouse Pad XXL", 41, 28, 11, 30, 2199, "medium"),
       sample("PROD-027", "Smartphone Gimbal Stabilizer", 9, 7, 25, 10, 11049, "high"),
       sample("PROD-028", "Wi-Fi Range Extender", 52, 13, 14, 20, 4159, "low"),
       sample("PROD-029", "Digital Photo Frame 10\"", 16, 6, 22, 12, 6709, "low"),
       sample("PROD-030", "Ethernet Cable Cat6 25ft", 78, 21, 6, 50, 1299, "medium"),
       sample("PROD-031", "Wireless Earbuds - Sport", 24, 39, 10, 35, 4839, "high"),
       sample("PROD-032", "Laptop Backpack Water-Resistant", 33, 14, 17, 20, 4249, "medium"),
       sample("PROD-033", "Mechanical Keyboard Switch Tester", 58, 4, 12, 25, 1099, "low"),
       sample("PROD-034", "Smartphone Camera Lens Kit", 21, 17, 19, 18, 3059, "medium"),
       sample("PROD-035", "Tablet Keyboard Case", 11, 24, 8, 15, 3649, "high"),
       sample("PROD-036", "VR Headset Stand", 47, 8, 15, 20, 2039, "low"),
       sample("PROD-037", "Wireless Gaming Controller", 29, 27, 11, 25, 5779, "medium"),
       sample("PROD-038", "USB-C to HDMI Adapter", 84, 42, 5, 60, 1449, "medium"),
       sample("PROD-039", "Smart Home Security Camera", 13, 18, 23, 15, 7649, "high"),
       sample("PROD-040", "Portable SSD 500GB", 36, 15, 18, 20, 6799, "medium") >>

MaxSeeds == 2

\* The _id of the k-th sample of the run-th insertMany: an _id no other document
\* has.
seedId(run, k) == MaxCreates + Len(sampleProducts) * (run - 1) + k

\* The first document of docs the unique index on productId rejects, 0 when it
\* rejects none.
firstDuplicate(products, docs) ==
    LET rejected == {k \in 1..Len(docs) :
                        \/ productIdTaken(products, docs[k].productId)
                        \/ \E j \in 1..(k - 1) : docs[j].productId = docs[k].productId}
    IN  IF rejected = {} THEN 0
        ELSE CHOOSE k \in rejected : \A j \in rejected : k <= j

\* Product.insertMany(docs), ordered: the documents are inserted one after the
\* other up to the first one the unique index rejects.
insertMany(products, docs) ==
    LET k == firstDuplicate(products, docs)
    IN  IF k = 0
        THEN [ok |-> TRUE, products |-> products \o docs]
        ELSE [ok |-> FALSE, products |-> products \o SubSeq(docs, 1, k - 1)]

\* POST /api/seed-data, first step: await Product.deleteMany({}).
SeedDeleteMany ==
    /\ seedRuns < MaxSeeds
    /\ seedRuns' = seedRuns + 1
    /\ seeding' = seeding + 1
    /\ store' = <<>>
    /\ analysed' = {}
    /\ updatedAt' = {}
    /\ request' = [op |-> "seed", step |-> "deleteMany"]
    /\ response' = [status |-> 0, kind |-> "pending", body |-> <<>>]
    /\ locals' = NoLocals
    /\ reanalysed' = FALSE
    /\ UNCHANGED client
    /\ UNCHANGED <<nextId, now>>

\* POST /api/seed-data, second step: await Product.insertMany(sampleProducts),
\* then the response.
SeedInsertMany ==
    /\ seeding > 0
    /\ LET run == seedRuns - seeding + 1
           docs == [k \in 1..Len(sampleProducts) |->
                        newProduct(sampleProducts[k], seedId(run, k), now)]
           r == insertMany(store, docs)
       IN  /\ store' = r.products
           /\ response' = IF r.ok
                          THEN [status |-> 201, kind |-> "seeded", body |-> docs]
                          ELSE [status |-> 500, kind |-> "duplicateKey",
                                body |-> <<"E11000">>]
    /\ seeding' = seeding - 1
    /\ request' = [op |-> "seed", step |-> "insertMany"]
    /\ locals' = NoLocals
    /\ reanalysed' = FALSE
    /\ UNCHANGED client
    /\ UNCHANGED <<nextId, now, seedRuns, analysed, updatedAt>>

(***************************************************************************)
(* The collection under seeding: seed requests, whose two steps other      *)
(* requests can come between, and creates, updates and deletes.            *)
(***************************************************************************)
SeedProductIds == {"PROD-001", "PROD-041"}

SeedBodies ==
    [productId : SeedProductIds,
     name : {"Widget"},
     currentStock : {Whole(100)},
     averageDailySales : {Whole(2)},
     supplierLeadTime : {Whole(9)},
     minimumReorderQuantity : {Whole(50)},
     costPerUnit : {Whole(2499)},
     criticality : {"high"}]

SeedPatches == [field : {"productId"}, value : SeedProductIds]

\* The documents the updates and deletes address: the created ones and the
\* first sample of each seeding.
SeedIds == Ids \cup {seedId(run, 1) : run \in 1..MaxSeeds}

NextSeed ==
    \/ SeedDeleteMany
    \/ SeedInsertMany
    \/ \E body \in SeedBodies : CreateProduct(body)
    \/ \E id \in SeedIds, patch \in SeedPatches : UpdateProduct(id, patch)
    \/ \E id \in SeedIds : DeleteProduct(id)

SpecSeed == Init /\ [][NextSeed]_vars

(***************************************************************************)
(* The seeded collection: the forty samples, then analyses and simulations *)
(* of the samples.                                                         *)
(***************************************************************************)
seededStore ==
    [k \in 1..Len(sampleProducts) |-> newProduct(sampleProducts[k], seedId(1, k), 0)]

SampleRequests ==
    [productId : {<<sampleProducts[k].productId>> : k \in 1..Len(sampleProducts)},
     spikeMultiplier : {Whole(3)},
     spikeDuration : {Whole(10), Whole(45)}]

InitSample ==
    /\ store = seededStore
    /\ nextId = 1
    /\ request = [op |-> "none"]
    /\ response = [status |-> 0, kind |-> "none", body |-> <<>>]
    /\ locals = NoLocals
    /\ analysed = {}
    /\ reanalysed = FALSE
    /\ now = 0
    /\ seedRuns = 1
    /\ seeding = 0
    /\ updatedAt = {}
    /\ unmounted

NextSample ==
    \/ ReorderAnalysis
    \/ \E req \in SampleRequests : SimulateDemandSpike(req)

SpecSample == InitSample /\ [][NextSample]_vars

(***************************************************************************)
(* The writes: creates and updates whose bodies the form of the dashboard  *)
(* would not have sent, while the clock advances.                          *)
(***************************************************************************)
MaxTime == 2

\* Date.now() has advanced.
Tick ==
    /\ now < MaxTime
    /\ now' = now + 1
    /\ UNCHANGED client
    /\ UNCHANGED <<store, nextId, request, response, locals, analysed, reanalysed,
                   seedRuns, seeding, updatedAt>>

WriteBody ==
    [productId |-> "PROD-001",
     name |-> "Widget",
     currentStock |-> Whole(8),
     averageDailySales |-> Whole(2),
     supplierLeadTime |-> Whole(9),
     minimumReorderQuantity |-> Whole(50),
     costPerUnit |-> Whole(2499),
     criticality |-> "high"]

\* The bodies of the creates: the body above with one field changed, without
\* currentStock, or with a lastUpdated of its own.
WriteBodies ==
    {[WriteBody EXCEPT !.productId = v] : v \in ProductIds}
        \cup {[WriteBody EXCEPT !.currentStock = Whole(-5)],
              [WriteBody EXCEPT !.costPerUnit = Whole(0)],
              [WriteBody EXCEPT !.criticality = "urgent"],
              [f \in DOMAIN WriteBody \ {"currentStock"} |-> WriteBody[f]],
              [f \in DOMAIN WriteBody \cup {"lastUpdated"} |->
                  IF f = "lastUpdated" THEN MaxTime + 1 ELSE WriteBody[f]]}

WritePatches ==
    [field : {"currentStock"}, value : {Whole(-5)}]
        \cup [field : {"criticality"}, value : {"urgent"}]
        \cup [field : {"lastUpdated"}, value : {0, MaxTime + 1}]

NextWrite ==
    \/ Tick
    \/ \E body \in WriteBodies : CreateProduct(body)
    \/ \E id \in Ids, patch \in WritePatches : UpdateProduct(id, patch)

SpecWrite == Init /\ [][NextWrite]_vars

(***************************************************************************)
(* The spike requests a client can send, on a collection of one sample.    *)
(***************************************************************************)
\* The object { a: 1 }.
AnObject == <<"object", "a", 1, 1>>

SpikeInputs ==
    [productId : {Undefined, <<"">>, <<"PROD-001">>, <<"PROD-009">>, AnObject},
     spikeMultiplier : {Undefined, Whole(0), Whole(-1), Num(5, 4), Whole(3)},
     spikeDuration : {Undefined, Whole(0), Whole(-2), Whole(10), Whole(45)}]

InitSpike ==
    /\ store = <<seededStore[1]>>
    /\ nextId = 1
    /\ request = [op |-> "none"]
    /\ response = [status |-> 0, kind |-> "none", body |-> <<>>]
    /\ locals = NoLocals
    /\ analysed = {}
    /\ reanalysed = FALSE
    /\ now = 0
    /\ seedRuns = 1
    /\ seeding = 0
    /\ updatedAt = {}
    /\ unmounted

NextSpike == \E req \in SpikeInputs : SimulateDemandSpike(req)

SpecSpike == InitSpike /\ [][NextSpike]_vars

(***************************************************************************)
(* The calculations on one stored product: any product and any spike       *)
(* request of the sets below, then analyses and simulations.               *)
(***************************************************************************)
CalcProducts ==
    [_id : {1},
     productId : {"PROD-001"},
     name : {"Widget"},
     currentStock : {Whole(0), Whole(8), Whole(28), Whole(100)},
     averageDailySales : {Whole(-1), Whole(0), Whole(2), Num(41, 10)},
     supplierLeadTime : {Whole(9)},
     minimumReorderQuantity : {Whole(50), Whole(130)},
     costPerUnit : {Whole(2499), Num(2999, 100)},
     criticality : {"high"},
     lastUpdated : {0}]

CalcRequests ==
    [productId : {Undefined, <<"PROD-001">>, <<"PROD-009">>},
     spikeMultiplier : {Undefined, Whole(0), Whole(-1), Num(1, 2), Num(5, 4), Whole(3)},
     spikeDuration : {Undefined, Whole(-2), Whole(10), Whole(30), Whole(45)}]

InitCalc ==
    /\ store \in {<<p>> : p \in CalcProducts}
    /\ nextId = 2
    /\ request = [op |-> "none"]
    /\ response = [status |-> 0, kind |-> "none", body |-> <<>>]
    /\ locals = NoLocals
    /\ analysed = {}
    /\ reanalysed = FALSE
    /\ now = 0
    /\ seedRuns = 0
    /\ seeding = 0
    /\ updatedAt = {}
    /\ unmounted

NextCalc ==
    \/ ReorderAnalysis
    \/ \E req \in CalcRequests : SimulateDemandSpike(req)

SpecCalc == InitCalc /\ [][NextCalc]_vars

(***************************************************************************)
(* The ranking of a collection: any collection of up to MaxProducts        *)
(* products, then the analysis.                                            *)
(***************************************************************************)
MaxProducts == 3

RankProduct(k) ==
    [_id : {k},
     productId : {"PROD-" \o ToString(k)},
     name : {"Widget"},
     currentStock : {Whole(8), Whole(100)},
     averageDailySales : {Whole(0), Whole(2)},
     supplierLeadTime : {Whole(9)},
     minimumReorderQuantity : {Whole(50)},
     costPerUnit : {Whole(2499)},
     criticality : Criticalities,
     lastUpdated : {0}]

RECURSIVE RankStores(_)
RankStores(n) ==
    IF n = 0 THEN {<<>>}
    ELSE LET shorter == RankStores(n - 1)
         IN  shorter \cup {Append(s, p) : s \in {t \in shorter : Len(t) = n - 1},
                                          p \in RankProduct(n)}

InitRank ==
    /\ store \in RankStores(MaxProducts)
    /\ nextId = Len(store) + 1
    /\ request = [op |-> "none"]
    /\ response = [status |-> 0, kind |-> "none", body |-> <<>>]
    /\ locals = NoLocals
    /\ analysed = {}
    /\ reanalysed = FALSE
    /\ now = 0
    /\ seedRuns = 0
    /\ seeding = 0
    /\ updatedAt = {}
    /\ unmounted

NextRank == ReorderAnalysis

SpecRank == InitRank /\ [][NextRank]_vars

(***************************************************************************)
(* The dashboard: its requests, its loading state and its notification     *)
(***************************************************************************)
MaxClicks == 2

\* showNotification(message, type)
showNotification(message, type) ==
    /\ notification' = <<message, type>>
    /\ timeouts' = Append(timeouts, shown + 1)
    /\ shown' = shown + 1
    /\ displayed' = shown + 1

\* fetchProducts() and fetchReorderAnalysis(), called one after the other: each
\* sets loading and sends its request.
fetchBoth(requests) ==
    [requests EXCEPT !.fetchProducts = @ + 1, !.fetchReorderAnalysis = @ + 1]

\* The dashboard just mounted: the effect has called both fetches.
InitClient ==
    /\ store = <<>>
    /\ nextId = 1
    /\ request = [op |-> "none"]
    /\ response = [status |-> 0, kind |-> "none", body |-> <<>>]
    /\ locals = NoLocals
    /\ analysed = {}
    /\ reanalysed = FALSE
    /\ now = 0
    /\ seedRuns = 0
    /\ seeding = 0
    /\ updatedAt = {}
    /\ loading = TRUE
    /\ notification = Null
    /\ timeouts = <<>>
    /\ inFlight = fetchBoth([fetchProducts |-> 0, fetchReorderAnalysis |-> 0, seedDatabase |-> 0])
    /\ clicks = 0
    /\ shown = 0
    /\ displayed = 0

\* The request of a fetchProducts() call settles: the rest of the function runs.
FetchProductsSettles(ok) ==
    /\ inFlight.fetchProducts > 0
    /\ inFlight' = [inFlight EXCEPT !.fetchProducts = @ - 1]
    /\ IF ok
       THEN UNCHANGED <<notification, timeouts, shown, displayed>>
       ELSE showNotification("Failed to fetch products", "error")
    /\ loading' = FALSE
    /\ UNCHANGED clicks
    /\ UNCHANGED server

\* The request of a fetchReorderAnalysis() call settles.
FetchReorderAnalysisSettles(ok) ==
    /\ inFlight.fetchReorderAnalysis > 0
    /\ inFlight' = [inFlight EXCEPT !.fetchReorderAnalysis = @ - 1]
    /\ IF ok
       THEN UNCHANGED <<notification, timeouts, shown, displayed>>
       ELSE showNotification("Failed to fetch reorder analysis", "error")
    /\ loading' = FALSE
    /\ UNCHANGED clicks
    /\ UNCHANGED server

\* The "Load Sample Data" button, disabled while loading: seedDatabase() up to
\* its await.
ClickSeed ==
    /\ ~loading
    /\ clicks < MaxClicks
    /\ clicks' = clicks + 1
    /\ loading' = TRUE
    /\ inFlight' = [inFlight EXCEPT !.seedDatabase = @ + 1]
    /\ UNCHANGED <<notification, timeouts, shown, displayed>>
    /\ UNCHANGED server

\* The request of a seedDatabase() call settles: on success the notification
\* and both fetches, then the finally block.
SeedSettles(ok) ==
    /\ inFlight.seedDatabase > 0
    /\ IF ok
       THEN /\ showNotification("Sample data loaded successfully!", "success")
            /\ inFlight' = fetchBoth([inFlight EXCEPT !.seedDatabase = @ - 1])
       ELSE /\ showNotification("Failed to seed database", "error")
            /\ inFlight' = [inFlight EXCEPT !.seedDatabase = @ - 1]
    /\ loading' = FALSE
    /\ UNCHANGED clicks
    /\ UNCHANGED server

\* The "Refresh Data" button, disabled while loading.
ClickRefresh ==
    /\ ~loading
    /\ clicks < MaxClicks
    /\ clicks' = clicks + 1
    /\ loading' = TRUE
    /\ inFlight' = fetchBoth(inFlight)
    /\ UNCHANGED <<notification, timeouts, shown, displayed>>
    /\ UNCHANGED server

\* onProductAdded, called by the form once its product is created.
ProductAdded ==
    /\ clicks < MaxClicks
    /\ clicks' = clicks + 1
    /\ loading' = TRUE
    /\ inFlight' = fetchBoth(inFlight)
    /\ showNotification("Product added successfully!", "success")
    /\ UNCHANGED server

\* The oldest pending timeout of showNotification runs, 4 seconds after its call.
TimeoutRuns ==
    /\ timeouts # <<>>
    /\ timeouts' = Tail(timeouts)
    /\ notification' = Null
    /\ displayed' = 0
    /\ UNCHANGED <<loading, inFlight, clicks, shown>>
    /\ UNCHANGED server

\* The close button of the notification on display.
CloseNotification ==
    /\ notification # Null
    /\ notification' = Null
    /\ displayed' = 0
    /\ UNCHANGED <<loading, timeouts, inFlight, clicks, shown>>
    /\ UNCHANGED server

NextClient ==
    \/ \E ok \in BOOLEAN : FetchProductsSettles(ok)
    \/ \E ok \in BOOLEAN : FetchReorderAnalysisSettles(ok)
    \/ ClickSeed
    \/ \E ok \in BOOLEAN : SeedSettles(ok)
    \/ ClickRefresh
    \/ ProductAdded
    \/ TimeoutRuns
    \/ CloseNotification

SpecClient == InitClient /\ [][NextClient]_vars

(***************************************************************************)
(* Properties of the reorder analysis                                      *)
(***************************************************************************)
analysisServed == response.kind = "analysis"

results == response.body

\* C1: a product whose averageDailySales is 0 is reported with daysRemaining
\* 'Unlimited' and needsReorder false, whatever its stock.
C1_ZeroSalesUnlimited ==
    analysisServed =>
        \A k \in 1..Len(results) :
            results[k].product.averageDailySales = Whole(0) =>
                /\ results[k].daysRemaining = <<"Unlimited">>
                /\ results[k].needsReorder = FALSE

\* C1 witness: a product with no sales and no stock has been analysed.
C1_Witness ==
    /\ analysisServed
    /\ \E k \in 1..Len(results) :
            /\ results[k].product.averageDailySales = Whole(0)
            /\ results[k].product.currentStock = Whole(0)
            /\ results[k].daysRemaining = <<"Unlimited">>

\* C2: needsReorder is true exactly when daysRemaining is a number that is at
\* most supplierLeadTime + 5; an unlimited daysRemaining is above any threshold.
C2_ReorderIffWithinThreshold ==
    analysisServed =>
        \A k \in 1..Len(results) :
            results[k].needsReorder =
                (/\ results[k].daysRemaining # <<"Unlimited">>
                 /\ Le(results[k].daysRemaining,
                       Add(results[k].product.supplierLeadTime, Whole(5))))

\* C2 witness: a product whose daysRemaining is exactly supplierLeadTime + 5 has
\* been analysed and needs a reorder.
C2_Witness ==
    /\ analysisServed
    /\ \E k \in 1..Len(results) :
            /\ results[k].daysRemaining = Add(results[k].product.supplierLeadTime, Whole(5))
            /\ results[k].needsReorder

\* C3: optimalReorderQuantity is never negative, and is 0 when needsReorder is
\* false, in the analysis and in the spike simulation.
C3_QuantityNonNegative ==
    /\ analysisServed =>
            \A k \in 1..Len(results) :
                /\ Le(Whole(0), results[k].optimalReorderQuantity)
                /\ ~results[k].needsReorder => results[k].optimalReorderQuantity = Whole(0)
    /\ response.kind = "simulation" =>
            /\ Le(Whole(0), response.body.afterSpike.optimalReorderQuantity)
            /\ ~response.body.afterSpike.needsReorder =>
                    response.body.afterSpike.optimalReorderQuantity = Whole(0)

\* C3 witness: a simulation has projected a product with sales that needs no
\* reorder after the spike.
C3_Witness ==
    /\ response.kind = "simulation"
    /\ ~response.body.afterSpike.needsReorder
    /\ Lt(Whole(0), locals.newAverageDailySales)
    /\ response.body.afterSpike.optimalReorderQuantity = Whole(0)

\* C4: in the ranked analysis every result that needs a reorder comes before
\* every result that does not, and within each group a result of higher
\* criticality never comes after one of lower criticality.
C4_Ranked ==
    analysisServed =>
        \A i \in 1..Len(results), j \in 1..Len(results) :
            i < j =>
                /\ results[i].needsReorder \/ ~results[j].needsReorder
                /\ results[i].needsReorder = results[j].needsReorder =>
                        criticalityOrder[results[i].product.criticality]
                            >= criticalityOrder[results[j].product.criticality]

\* C4 witness: three products stored in another order than the ranking's, with
\* both groups present and a low-criticality reorder before a high-criticality
\* product that needs none.
C4_Witness ==
    /\ analysisServed
    /\ Len(results) = 3
    /\ results[1].needsReorder /\ results[1].product.criticality = "low"
    /\ ~results[2].needsReorder /\ results[2].product.criticality = "high"
    /\ ~results[3].needsReorder /\ results[3].product.criticality = "medium"
    /\ results[1].product = store[3]
    /\ results[2].product = store[2]

(***************************************************************************)
(* Properties of the spike simulation                                      *)
(***************************************************************************)
simulateRequested == request.op = "simulate"

isMissing(v) == v = Undefined

isNonPositive(v) == IsNumber(v) /\ IsFinite(v) /\ v[1] <= 0

invalidParameters(req) ==
    \/ isMissing(req.productId) \/ isMissing(req.spikeMultiplier)
    \/ isMissing(req.spikeDuration)
    \/ isNonPositive(req.spikeMultiplier) \/ isNonPositive(req.spikeDuration)

knownProductId(productId) ==
    \E k \in 1..Len(store) : <<store[k].productId>> = productId

\* C5: a spike request with a missing field or a non-positive multiplier or
\* duration is answered 400, whether or not its productId is known; a request
\* with valid parameters and an unknown productId is answered 404.
C5_ValidationBeforeLookup ==
    simulateRequested =>
        /\ invalidParameters(request.body) =>
                response.status = 400 /\ response.kind = "invalid"
        /\ (~invalidParameters(request.body) /\ ~knownProductId(request.body.productId)) =>
                response.status = 404 /\ response.kind = "notFound"

\* C5 witness: a request with a negative duration for an unknown product has
\* been answered 400.
C5_Witness ==
    /\ simulateRequested
    /\ request.body.productId = <<"PROD-009">>
    /\ request.body.spikeMultiplier = Whole(3)
    /\ request.body.spikeDuration = Whole(-2)
    /\ response.status = 400

simulationServed == response.kind = "simulation"

spikeConsumption ==
    Mul(Mul(locals.product.averageDailySales, request.body.spikeMultiplier),
        request.body.spikeDuration)

\* C6: with spikeDuration >= 30 the new average daily sales of the projection
\* is averageDailySales * spikeMultiplier exactly, with no share of the normal
\* rate; the response reports it rounded to 2 decimal places.
C6_WholeWindowSpiked ==
    (simulationServed /\ Le(Whole(30), request.body.spikeDuration)) =>
        LET spiked == Mul(locals.product.averageDailySales, request.body.spikeMultiplier)
        IN  /\ locals.newAverageDailySales = spiked
            /\ response.body.afterSpike.newAverageDailySales = Round2(spiked)

\* C6 witness: a spike of 45 days at 1.25 times a sales rate of 4.1 has been
\* simulated.
C6_Witness ==
    /\ simulationServed
    /\ request.body.spikeDuration = Whole(45)
    /\ request.body.spikeMultiplier = Num(5, 4)
    /\ locals.product.averageDailySales = Num(41, 10)
    /\ locals.newAverageDailySales = Num(41, 8)

isFiniteNumber(v) == IsNumber(v) /\ IsFinite(v)

\* C8: for a product with currentStock = 0 (and sales that are not negative) the
\* stockDepletion handed to the response is a finite number or an explicit tag,
\* never a non-finite number.
C8_DepletionDefinedAtZeroStock ==
    (/\ simulationServed
     /\ locals.product.currentStock = Whole(0)
     /\ Le(Whole(0), locals.product.averageDailySales)) =>
        \/ isFiniteNumber(response.body.spikeDetails.stockDepletion)
        \/ IsString(response.body.spikeDetails.stockDepletion)

isDaysValue(v) == isFiniteNumber(v) \/ v = <<"Unlimited">>

\* C9: every daysRemaining written to a response, by the analysis and by the
\* simulation (original and afterSpike), is a finite number or 'Unlimited'.
C9_DaysRemainingFiniteOrTagged ==
    /\ analysisServed =>
            \A k \in 1..Len(results) : isDaysValue(toJSON(results[k].daysRemaining))
    /\ simulationServed =>
            /\ isDaysValue(toJSON(response.body.original.daysRemaining))
            /\ isDaysValue(toJSON(response.body.afterSpike.daysRemaining))

C11_ReadOnlyHandlers ==
    [][request'.op \in {"analysis", "simulate"} => store' = store]_vars

\* C11 witness: a simulation has been answered with a projection whose stock
\* differs from the stored one, while two products are stored.
C11_Witness ==
    /\ simulationServed
    /\ Len(store) = 2
    /\ locals.stockAfterSpike # locals.product.currentStock
    /\ \E k \in 1..Len(store) : store[k] = locals.product

(***************************************************************************)
(* The worked examples                                                     *)
(***************************************************************************)
\* The results of the analysis served for the records with these three fields.
resultsFor(currentStock, averageDailySales, supplierLeadTime) ==
    {results[k] : k \in {j \in 1..Len(results) :
        /\ results[j].product.currentStock = currentStock
        /\ results[j].product.averageDailySales = averageDailySales
        /\ results[j].product.supplierLeadTime = supplierLeadTime}}

\* C12: for a record with currentStock 45, averageDailySales 3.2 and
\* supplierLeadTime 7 the analysis returns daysRemaining 14, safetyThreshold 12
\* and needsReorder false.
C12_ExampleNoReorder ==
    analysisServed =>
        \A r \in resultsFor(Whole(45), Num(32, 10), Whole(7)) :
            /\ r.daysRemaining = Whole(14)
            /\ r.safetyThreshold = Whole(12)
            /\ r.needsReorder = FALSE

\* C12 witness: an analysis served with such a record in the collection.
C12_Witness ==
    /\ analysisServed
    /\ resultsFor(Whole(45), Num(32, 10), Whole(7)) # {}

\* C13: for a record with currentStock 8, averageDailySales 4.1 and
\* supplierLeadTime 9 the analysis returns daysRemaining 1, safetyThreshold 14,
\* needsReorder true and the quantity max(max(0, 4.1 * 60 - 8), minimum order).
C13_ExampleReorder ==
    analysisServed =>
        \A r \in resultsFor(Whole(8), Num(41, 10), Whole(9)) :
            /\ r.daysRemaining = Whole(1)
            /\ r.safetyThreshold = Whole(14)
            /\ r.needsReorder = TRUE
            /\ r.optimalReorderQuantity =
                   Max(Max(Whole(0), Sub(Mul(Num(41, 10), Whole(60)), Whole(8))),
                       r.product.minimumReorderQuantity)

\* C13 witness: an analysis served with such a record in the collection, whose
\* 60-day quantity of 238 is above its minimum order.
C13_Witness ==
    /\ analysisServed
    /\ \E r \in resultsFor(Whole(8), Num(41, 10), Whole(9)) :
           /\ r.optimalReorderQuantity = Whole(238)
           /\ Lt(r.product.minimumReorderQuantity, Whole(238))

\* A simulation has been served for a record with this stock and this sales
\* rate, with this multiplier and this duration.
simulated(currentStock, averageDailySales, spikeMultiplier, spikeDuration) ==
    /\ simulationServed
    /\ locals.product.currentStock = currentStock
    /\ locals.product.averageDailySales = averageDailySales
    /\ request.body.spikeMultiplier = spikeMultiplier
    /\ request.body.spikeDuration = spikeDuration

\* C14: a spike of multiplier 3 and duration 10 on a record with currentStock
\* 100 and averageDailySales 2 consumes 60, leaves a stock of 40 and gives the
\* new average (2 * 20 + 6 * 10) / 30, reported as 3.33.
C14_ExampleSpike ==
    simulated(Whole(100), Whole(2), Whole(3), Whole(10)) =>
        /\ locals.totalSpikeConsumption = Whole(60)
        /\ response.body.spikeDetails.totalConsumptionDuringSpike = Whole(60)
        /\ locals.stockAfterSpike = Whole(40)
        /\ response.body.afterSpike.stockAfterSpike = Whole(40)
        /\ locals.newAverageDailySales =
               Div(Add(Mul(Whole(2), Whole(20)), Mul(Whole(6), Whole(10))), Whole(30))
        /\ response.body.afterSpike.newAverageDailySales = Num(333, 100)

\* C14 witness: that simulation has been served, with a new average of 10/3.
C14_Witness ==
    /\ simulated(Whole(100), Whole(2), Whole(3), Whole(10))
    /\ locals.newAverageDailySales = Num(10, 3)

(***************************************************************************)
(* The data model                                                          *)
(***************************************************************************)
\* As many productIds as documents.
uniqueProductIds(products) ==
    Cardinality({products[i].productId : i \in 1..Len(products)}) = Len(products)

\* C15: whatever creates, updates, deletes and seedings are served, no two
\* documents of the collection have the same productId; a create with a valid
\* body whose productId a document already has is answered with the
\* duplicate-key error and leaves the collection as it was.
C15_UniqueProductId ==
    [][/\ uniqueProductIds(store')
       /\ (/\ request'.op = "create"
           /\ ~validationFails(request'.body)
           /\ productIdTaken(store, request'.body.productId))
          => (response'.kind = "duplicateKey" /\ store' = store)]_vars

\* C15 witness: on the seeded collection a create with the productId of a
\* sample has been answered with the duplicate-key error.
C15_Witness ==
    /\ request.op = "create"
    /\ response.kind = "duplicateKey"
    /\ Len(store) = Len(sampleProducts)
    /\ \E k \in 1..Len(store) : store[k].productId = request.body.productId

\* The ranges the data model gives the numbers of a record.
dataModelInvariants(product) ==
    /\ Le(Whole(0), product.currentStock)
    /\ Le(Whole(0), product.averageDailySales)
    /\ Le(Whole(1), product.supplierLeadTime)
    /\ Le(Whole(1), product.minimumReorderQuantity)
    /\ Lt(Whole(0), product.costPerUnit)

\* C16: after the creates and updates the server accepts every document is
\* within the ranges of the data model, and a create or an update that would
\* put a document outside them is rejected and leaves the collection as it was.
C16_RangesEnforced ==
    [][/\ \A k \in 1..Len(store') : dataModelInvariants(store'[k])
       /\ (/\ request'.op = "create"
           /\ ~validationFails(request'.body)
           /\ ~dataModelInvariants(request'.body))
          => (response'.status = 400 /\ store' = store)
       /\ (/\ request'.op = "update"
           /\ hasId(store, request'.id)
           /\ ~dataModelInvariants(updateOf(store[indexOfId(store, request'.id)],
                                            request'.body, now)))
          => (response'.status = 400 /\ store' = store)]_vars

\* The update just served was accepted.
updateAccepted == request.op = "update" /\ response.kind = "product"

\* C17: a create stores a lastUpdated; every accepted update stores the time of
\* the update as lastUpdated, whatever lastUpdated its body carries; so the
\* lastUpdated an update stores is never before the time of the update served
\* before it for the same document.  (A step that leaves the clock alone serves
\* a request.)
C17_LastUpdatedFollowsUpdates ==
    [][now' = now =>
       /\ (request'.op = "create" /\ response'.kind = "product") =>
              /\ "lastUpdated" \in DOMAIN store'[Len(store')]
              /\ "lastUpdated" \notin DOMAIN request'.body
                     => store'[Len(store')].lastUpdated = now
       /\ updateAccepted' =>
              LET updated == store'[indexOfId(store', request'.id)]
              IN  /\ updated.lastUpdated = now
                  /\ response'.body.lastUpdated = now
                  /\ \A e \in updatedAt : e[1] = request'.id => e[2] <= updated.lastUpdated]_vars

\* C17 witness: at time 2 an update whose body carries a lastUpdated of 0 has
\* been accepted, and the document has the lastUpdated 2.
C17_Witness ==
    /\ updateAccepted
    /\ request.body.field = "lastUpdated"
    /\ request.body.value = 0
    /\ now = 2
    /\ store[indexOfId(store, request.id)].lastUpdated = 2

flooredQuantity(dailySales, stock, minimumReorderQuantity) ==
    Max(Max(Whole(0), Sub(Mul(dailySales, Whole(60)), stock)), minimumReorderQuantity)

\* The quantity is the floored one when a reorder is triggered, and 0, not the
\* minimum order, when none is.
quantityAsTriggered(triggered, quantity, dailySales, stock, minimumReorderQuantity) ==
    IF triggered
    THEN /\ quantity = flooredQuantity(dailySales, stock, minimumReorderQuantity)
         /\ Le(minimumReorderQuantity, quantity)
    ELSE quantity = Whole(0)

\* C19: when a reorder is triggered, in the analysis and in the projection after
\* a spike (on stockAfterSpike and the new average), the quantity is
\* max(max(0, dailySales * 60 - stock), minimumReorderQuantity), so at least the
\* minimum order; when none is triggered the minimum order is not applied.
C19_MinimumOrderFloor ==
    /\ analysisServed =>
           \A k \in 1..Len(results) :
               quantityAsTriggered(results[k].needsReorder,
                                   results[k].optimalReorderQuantity,
                                   results[k].product.averageDailySales,
                                   results[k].product.currentStock,
                                   results[k].product.minimumReorderQuantity)
    /\ simulationServed =>
           quantityAsTriggered(response.body.afterSpike.needsReorder,
                               response.body.afterSpike.optimalReorderQuantity,
                               locals.newAverageDailySales,
                               locals.stockAfterSpike,
                               locals.product.minimumReorderQuantity)

\* C19 witness: a record with a stock of 28, a sales rate of 2 and a minimum
\* order of 130 has been analysed, with a 60-day quantity of 92 raised to 130,
\* and then put under a spike of 1.25 for 10 days, with a 60-day quantity of 127
\* raised to 130.
C19_Witness ==
    /\ simulationServed
    /\ response.body.afterSpike.needsReorder
    /\ locals.stockAfterSpike = Whole(3)
    /\ Sub(Mul(locals.newAverageDailySales, Whole(60)), locals.stockAfterSpike) = Whole(127)
    /\ response.body.afterSpike.optimalReorderQuantity = Whole(130)
    /\ \E r \in analysed :
           /\ r.product = locals.product
           /\ r.needsReorder
           /\ Sub(Mul(r.product.averageDailySales, Whole(60)), r.product.currentStock)
                  = Whole(92)
           /\ r.optimalReorderQuantity = Whole(130)

\* (averageDailySales * (30 - spikeDuration)
\*      + averageDailySales * spikeMultiplier * spikeDuration) / 30
blendedAverage(averageDailySales, spikeMultiplier, spikeDuration) ==
    Div(Add(Mul(averageDailySales, Sub(Whole(30), spikeDuration)),
            Mul(Mul(averageDailySales, spikeMultiplier), spikeDuration)),
        Whole(30))

\* C20: for an accepted simulation with spikeDuration < 30 the new average daily
\* sales is the blend of the normal rate over 30 - spikeDuration days and the
\* spiked rate over spikeDuration days; at spikeDuration = 30, where the handler
\* takes the spiked rate, the blend has the same value.
C20_BlendedAverage ==
    (simulationServed /\ Le(request.body.spikeDuration, Whole(30))) =>
        locals.newAverageDailySales =
            blendedAverage(locals.product.averageDailySales,
                           request.body.spikeMultiplier,
                           request.body.spikeDuration)

\* C20 witness: a spike of 10 days at 1.25 times a sales rate of 4.1 has been
\* simulated, with the new average 4.1 * 13/12.
C20_Witness ==
    /\ simulated(Whole(8), Num(41, 10), Num(5, 4), Whole(10))
    /\ locals.newAverageDailySales = Num(533, 120)

\* cost is quantity * costPerUnit in whole cents, the nearest ones, a half cent
\* going up; and 0 for a quantity of 0.
costRoundedHalfUp(cost, quantity, costPerUnit) ==
    LET cents == Mul(cost, Whole(100))
        exact == Mul(Mul(quantity, costPerUnit), Whole(100))
    IN  /\ isFiniteNumber(cents)
        /\ cents[2] = 1
        /\ Le(Sub(cents, Num(1, 2)), exact)
        /\ Lt(exact, Add(cents, Num(1, 2)))
        /\ quantity = Whole(0) => cost = Whole(0)

\* C21: in the analysis and in the simulation estimatedCost is
\* optimalReorderQuantity * costPerUnit rounded to 2 decimal places, halves up,
\* and 0 when no reorder is triggered.
C21_CostRoundedToCents ==
    /\ analysisServed =>
           \A k \in 1..Len(results) :
               /\ costRoundedHalfUp(results[k].estimatedCost,
                                    results[k].optimalReorderQuantity,
                                    results[k].product.costPerUnit)
               /\ ~results[k].needsReorder => results[k].estimatedCost = Whole(0)
    /\ simulationServed =>
           /\ costRoundedHalfUp(response.body.afterSpike.estimatedCost,
                                response.body.afterSpike.optimalReorderQuantity,
                                locals.product.costPerUnit)
           /\ ~response.body.afterSpike.needsReorder =>
                  response.body.afterSpike.estimatedCost = Whole(0)

\* C21 witness: a simulation orders 266.5 units at 29.99, which is 7992.335, and
\* reports 7992.34.
C21_Witness ==
    /\ simulationServed
    /\ response.body.afterSpike.optimalReorderQuantity = Num(533, 2)
    /\ locals.product.costPerUnit = Num(2999, 100)
    /\ response.body.afterSpike.estimatedCost = Num(799234, 100)

(***************************************************************************)
(* Updates and deletes by _id                                              *)
(***************************************************************************)
\* The documents of the collection other than the one with this _id.
others(products, id) == {products[k] : k \in {j \in 1..Len(products) : products[j]._id # id}}

\* The fields of the addressed document an update may change.
updatable(patch) == {patch.field, "lastUpdated"}

\* C22: an update or a delete whose identifier matches no document is answered
\* with NotFound and leaves the collection as it was; an accepted delete removes
\* the addressed document and no other; an accepted update changes the fields
\* of its body and lastUpdated of the addressed document and nothing else; a
\* second delete of a document is answered with NotFound.
C22_AddressedRecordOnly ==
    [][/\ (request'.op \in {"update", "delete"} /\ ~hasId(store, request'.id)) =>
              /\ response'.kind = "notFound"
              /\ store' = store
       /\ (request'.op = "delete" /\ response'.kind = "deleted") =>
              /\ hasId(store, request'.id)
              /\ ~hasId(store', request'.id)
              /\ Len(store') = Len(store) - 1
              /\ others(store', request'.id) = others(store, request'.id)
       /\ (request'.op = "update" /\ response'.kind = "product") =>
              /\ Len(store') = Len(store)
              /\ others(store', request'.id) = others(store, request'.id)
              /\ LET before == store[indexOfId(store, request'.id)]
                     after == store'[indexOfId(store', request'.id)]
                 IN  \A f \in DOMAIN before \ updatable(request'.body) :
                         after[f] = before[f]
       /\ (request.op = "delete" /\ response.kind = "deleted"
               /\ request'.op = "delete" /\ request'.id = request.id) =>
              response'.kind = "notFound"]_vars

(***************************************************************************)
(* The outcomes of a simulation request                                    *)
(***************************************************************************)
\* C23: a simulation request is answered with a simulation, with the
\* invalid-input error or with the not-found error, and with nothing else.
C23_ThreeOutcomes ==
    simulateRequested => response.kind \in {"simulation", "invalid", "notFound"}

(***************************************************************************)
(* Seeding                                                                 *)
(***************************************************************************)
\* The collection holds the samples and nothing else.
exactlySamples(products) ==
    /\ Len(products) = Len(sampleProducts)
    /\ \A k \in 1..Len(sampleProducts) :
           \E j \in 1..Len(products) :
               \A f \in DOMAIN sampleProducts[k] : products[j][f] = sampleProducts[k][f]

\* C24: when a seed request has been answered with success the collection holds
\* exactly the 40 samples, also when creates or another seed request came
\* between its steps.
C24_SeedLeavesExactlySamples ==
    (request.op = "seed" /\ response.kind = "seeded") => exactlySamples(store)

(***************************************************************************)
(* Relations between the numbers of a result                               *)
(***************************************************************************)
\* The stock with the order received covers 60 days of sales.
coversTarget(stock, quantity, dailySales) ==
    Le(Mul(dailySales, Whole(60)), Add(stock, quantity))

\* C25: when the analysis triggers a reorder for a record, currentStock +
\* optimalReorderQuantity >= averageDailySales * 60; and when the projection
\* after a spike does, stockAfterSpike + optimalReorderQuantity >=
\* newAverageDailySales * 60.
C25_OrderCoversTarget ==
    /\ analysisServed =>
           \A k \in 1..Len(results) :
               results[k].needsReorder =>
                   coversTarget(results[k].product.currentStock,
                                results[k].optimalReorderQuantity,
                                results[k].product.averageDailySales)
    /\ simulationServed =>
           (response.body.afterSpike.needsReorder =>
                coversTarget(locals.stockAfterSpike,
                             response.body.afterSpike.optimalReorderQuantity,
                             locals.newAverageDailySales))

\* C25 witness: a spike leaves a stock of 48.75 under a new average of 533/120
\* and triggers an order of 217.75, which brings the stock to the 266.5 of 60
\* days.
C25_Witness ==
    /\ simulationServed
    /\ response.body.afterSpike.needsReorder
    /\ locals.stockAfterSpike = Num(195, 4)
    /\ response.body.afterSpike.optimalReorderQuantity = Num(871, 4)
    /\ Add(locals.stockAfterSpike, response.body.afterSpike.optimalReorderQuantity)
           = Mul(locals.newAverageDailySales, Whole(60))

\* A daysRemaining as a number, the tag 'Unlimited' being the greatest.
daysValue(v) == IF v = <<"Unlimited">> THEN Infinity ELSE v

\* The projection is not better than the original state.
notBetter ==
    /\ Le(locals.product.averageDailySales, locals.newAverageDailySales)
    /\ Le(daysValue(response.body.afterSpike.daysRemaining),
          daysValue(response.body.original.daysRemaining))

C27_StockOutTriggersReorder ==
    (/\ simulationServed
     /\ Le(locals.product.currentStock, spikeConsumption)
     /\ Lt(Whole(0), locals.product.averageDailySales)
     /\ Le(Whole(1), locals.product.supplierLeadTime)) =>
        /\ response.body.afterSpike.stockAfterSpike = Whole(0)
        /\ response.body.afterSpike.daysRemaining = Whole(0)
        /\ response.body.afterSpike.needsReorder = TRUE
        /\ Le(locals.product.minimumReorderQuantity,
              response.body.afterSpike.optimalReorderQuantity)

\* C27 witness: a spike of 3 for 10 days consumes 123 of a stock of 28 sold at
\* 4.1 a day, and the projection orders 410.
C27_Witness ==
    /\ simulated(Whole(28), Num(41, 10), Whole(3), Whole(10))
    /\ spikeConsumption = Whole(123)
    /\ response.body.afterSpike.stockAfterSpike = Whole(0)
    /\ response.body.afterSpike.needsReorder
    /\ response.body.afterSpike.optimalReorderQuantity = Whole(410)

(***************************************************************************)
(* The analysis and the collection                                         *)
(***************************************************************************)
\* How many results carry this record.
resultsOf(product) == Cardinality({j \in 1..Len(results) : results[j].product = product})

\* C28: the analysis returns one result for each document of the collection,
\* carrying the fields of the document as they are stored, and no other result:
\* the ranking drops none and repeats none.
C28_AnalysisIsPermutation ==
    analysisServed =>
        /\ Len(results) = Len(store)
        /\ \A k \in 1..Len(store) : resultsOf(store[k]) = 1
        /\ \A j \in 1..Len(results) :
               \E k \in 1..Len(store) : results[j].product = store[k]

\* C28 witness: an analysis of three documents has ranked the third one first.
C28_Witness ==
    /\ analysisServed
    /\ Len(store) = 3
    /\ results[1].product = store[3]
    /\ results[3].product = store[1]

requestsInFlight ==
    inFlight.fetchProducts + inFlight.fetchReorderAnalysis + inFlight.seedDatabase

\* C29: the loading flag of the dashboard is true whenever at least one of its
\* requests (fetch products, fetch reorder analysis, seed database) is in
\* flight, and false once all of them have settled.
C29_LoadingWhileInFlight == loading = (requestsInFlight > 0)

\* C30: a notification on display is removed by a timeout only when the timeout
\* is the one its own showNotification call set: the timeout of an earlier
\* call never removes a notification shown later.
C30_OwnTimeoutOnly ==
    [][(Len(timeouts') < Len(timeouts) /\ notification # Null)
          => Head(timeouts) = displayed]_vars

====
